---- MODULE Spec2Model ----
(***************************************************************************)
(* Model of the PetClaw solver (petclaw/evolve/clawpack.py).               *)
(*   SpecBC   the boundary fill qbc / qbc_lower / qbc_upper on a ghosted   *)
(*            array of a 1D, 2D or 3D grid partition;                      *)
(*   SpecCFL  the step controller on NPart partitions with the global CFL  *)
(*            reduction communicateCFL (FairSpecCFL: every partition keeps *)
(*            running);                                                    *)
(*   SpecDist a 1D run on the undivided grid beside the same run on NPart  *)
(*            partitions with ghost exchange.                              *)
(***************************************************************************)
EXTENDS Integers, Sequences, FiniteSets, TLC

VARIABLES grid, ghosted_q, twin_q, q_in, op, exc, calls,
          dt_variable, pc, cfl, dt, dt_used, dt0, t, t_old, q_sol, q_cand,
          speed, retries, nsteps, sendbuf, left, pre,
          dist_cfg, serial_q, serial_steps, local_q, dpc, dsteps

bcvars == <<grid, ghosted_q, twin_q, q_in, op, exc, calls>>
cflvars == <<dt_variable, pc, cfl, dt, dt_used, dt0, t, t_old, q_sol, q_cand,
             speed, retries, nsteps, sendbuf, left, pre>>
distvars == <<dist_cfg, serial_q, serial_steps, local_q, dpc, dsteps>>
vars == <<bcvars, cflvars, distvars>>

(***************************************************************************)
(* Bounds.                                                                 *)
(***************************************************************************)
MaxMbc == 2        \* ghost-cell count mbc ranges over 1..MaxMbc
MaxExtra == 1      \* the x dimension has mbc..mbc+MaxExtra local cells
Meqn == 3          \* components of the state vector
NPart == 2         \* partitions (MPI ranks) of the decomposition
MaxSteps == 2      \* time steps taken before the end time is reached
MaxDistSteps == 2  \* time steps of the serial / distributed comparison

(***************************************************************************)
(* Boundary condition kinds (dim.mthbc_lower / dim.mthbc_upper).           *)
(***************************************************************************)
Kinds == 0..4      \* 0 user, 1 extrapolation, 2 periodic, 3 wall, 4 unknown
BuiltinKinds == {1, 2, 3}
DimNames == <<"x", "y", "z">>

(***************************************************************************)
(* Ghosted arrays.  An array is a function from index tuples               *)
(* <<m, i1, ..., i_ndim>> (0-based, as in numpy) to integers.              *)
(***************************************************************************)
Local(dim) == dim.nend - dim.nstart

Size(g, d) == Local(g.dimensions[d]) + 2 * g.mbc

AllComps == 0..(Meqn - 1)

Range(g, d) == 0..(Size(g, d) - 1)

Indices(g) ==
  IF g.ndim = 1
  THEN { <<m, i>> : m \in AllComps, i \in Range(g, 1) }
  ELSE IF g.ndim = 2
  THEN { <<m, i, j>> : m \in AllComps, i \in Range(g, 1), j \in Range(g, 2) }
  ELSE { <<m, i, j, k>> : m \in AllComps, i \in Range(g, 1),
                          j \in Range(g, 2), k \in Range(g, 3) }

\* Position of an index in row-major order; used to give each cell its own value.
RECURSIVE Lin(_, _, _)
Lin(g, s, k) ==
  IF k = 1 THEN s[1]
  ELSE Lin(g, s, k - 1) * Size(g, k - 1) + s[k]

IsGhost(g, s, d) ==
  \/ s[d + 1] < g.mbc
  \/ s[d + 1] >= Size(g, d) - g.mbc

IsInterior(g, s) == \A d \in 1..g.ndim : ~IsGhost(g, s, d)

\* numpy index normalisation: a negative index counts from the end.
PyIndex(k, size) == IF k < 0 THEN size + k ELSE k

\* view[:, dst, ...] = sign * view[:, src, ...] restricted to the components
\* comps, where view = np.rollaxis(q, ax, 1): position 1 of the view is
\* axis ax of q, so the assignment writes through to q along axis ax.
SetSlice(q, ax, dst, src, comps, sign) ==
  [s \in DOMAIN q |->
     IF s[ax + 1] = dst /\ s[1] \in comps
     THEN sign * q[[s EXCEPT ![ax + 1] = src]]
     ELSE q[s]]

(***************************************************************************)
(* User supplied callbacks (kind 0).  The callback receives the unrolled   *)
(* array and the dimension; it is modelled as a fill of that side's ghost  *)
(* layers with the value 0.                                                *)
(***************************************************************************)
AxisOf(name) == CHOOSE d \in DOMAIN DimNames : DimNames[d] = name

user_bc_lower(g, dim, q) ==
  [s \in DOMAIN q |->
     IF s[AxisOf(dim.name) + 1] < g.mbc THEN 0 ELSE q[s]]

user_bc_upper(g, dim, q) ==
  [s \in DOMAIN q |->
     IF s[AxisOf(dim.name) + 1] >= Size(g, AxisOf(dim.name)) - g.mbc
     THEN 0 ELSE q[s]]

(***************************************************************************)
(* The result of a call: the array, the exception raised ("none" when the  *)
(* call returns), and the user callbacks invoked.                          *)
(***************************************************************************)
Ret(q, cs) == [q |-> q, exc |-> "none", calls |-> cs]
Raise(q, e, cs) == [q |-> q, exc |-> e, calls |-> cs]

\* raise NotImplementedError("... %s ..." % x.mthbc_lower): the message is
\* formatted first, and x is not a name of the function or of the module.
NotImplementedMsg == "NameError"

(***************************************************************************)
(* qbc_lower                                                               *)
(***************************************************************************)
\* ExtrapLower reading one cell too far inside the grid.
RECURSIVE ExtrapLowerOffByOne(_, _, _, _)
ExtrapLowerOffByOne(q, ax, mbc, i) ==
  IF i >= mbc THEN q
  ELSE ExtrapLowerOffByOne(SetSlice(q, ax, i, mbc + 1, AllComps, 1),
                           ax, mbc, i + 1)

\* for i in xrange(grid.mbc): qbc[:,i,...] = qbc[:,grid.mbc,...]
RECURSIVE ExtrapLower(_, _, _, _)
ExtrapLower(q, ax, mbc, i) ==
  IF i >= mbc THEN q
  ELSE ExtrapLower(SetSlice(q, ax, i, mbc, AllComps, 1), ax, mbc, i + 1)

\* WallLower with the loop running over xrange(grid.mbc + 1).
RECURSIVE WallLowerOneMore(_, _, _, _, _)
WallLowerOneMore(q, ax, mbc, c, i) ==
  IF i > mbc THEN q
  ELSE LET q1 == SetSlice(q, ax, i, mbc + 1 - i, AllComps, 1)
           q2 == SetSlice(q1, ax, i, mbc + 1 - i, {c}, -1)
       IN WallLowerOneMore(q2, ax, mbc, c, i + 1)

\* for i in xrange(grid.mbc):
\*     qbc[:,i,...] = qbc[:,grid.mbc+1-i,...]
\*     qbc[c,i,...] = -qbc[c,grid.mbc+1-i,...]
RECURSIVE WallLower(_, _, _, _, _)
WallLower(q, ax, mbc, c, i) ==
  IF i >= mbc THEN q
  ELSE LET q1 == SetSlice(q, ax, i, mbc + 1 - i, AllComps, 1)
           q2 == SetSlice(q1, ax, i, mbc + 1 - i, {c}, -1)
       IN WallLower(q2, ax, mbc, c, i + 1)

\* ax is the axis the caller rolled to position 1 (1 when not rolled).
qbc_lower(g, dim, q, ax) ==
  IF dim.mthbc_lower = 0
  THEN Ret(user_bc_lower(g, dim, q), <<[side |-> "lower", dim |-> dim.name]>>)
  ELSE IF dim.mthbc_lower = 1
  THEN IF dim.nstart = 0
       THEN Ret(ExtrapLower(q, ax, g.mbc, 0), <<>>)
       ELSE Ret(q, <<>>)
  ELSE IF dim.mthbc_lower = 2
  THEN Ret(q, <<>>)
  ELSE IF dim.mthbc_lower = 3
  THEN IF dim.nstart = 0
       THEN IF g.ndim = 1
            THEN Ret(WallLower(q, ax, g.mbc, 1, 0), <<>>)
            ELSE IF g.ndim = 2
            THEN IF dim.name = "x"
                 THEN Ret(WallLower(q, ax, g.mbc, 1, 0), <<>>)
                 ELSE Ret(WallLower(q, ax, g.mbc, 2, 0), <<>>)
            ELSE Raise(q, NotImplementedMsg, <<>>)
       ELSE Ret(q, <<>>)
  ELSE Raise(q, NotImplementedMsg, <<>>)

(***************************************************************************)
(* qbc_upper                                                               *)
(***************************************************************************)
\* for i in xrange(grid.mbc): qbc[:,-i-1,...] = qbc[:,-grid.mbc-1,...]
RECURSIVE ExtrapUpper(_, _, _, _, _)
ExtrapUpper(q, ax, mbc, size, i) ==
  IF i >= mbc THEN q
  ELSE ExtrapUpper(SetSlice(q, ax, PyIndex(-i - 1, size),
                            PyIndex(-mbc - 1, size), AllComps, 1),
                   ax, mbc, size, i + 1)

\* for i in xrange(grid.mbc):
\*     qbc[:,-i-1,...] = qbc[:,-grid.mbc-2+i,...]
\*     qbc[c,-i-1,...] = -qbc[c,-grid.mbc-2+i,...]
RECURSIVE WallUpper(_, _, _, _, _, _)
WallUpper(q, ax, mbc, size, c, i) ==
  IF i >= mbc THEN q
  ELSE LET dst == PyIndex(-i - 1, size)
           src == PyIndex(-mbc - 2 + i, size)
           q1 == SetSlice(q, ax, dst, src, AllComps, 1)
           q2 == SetSlice(q1, ax, dst, src, {c}, -1)
       IN WallUpper(q2, ax, mbc, size, c, i + 1)

\* qbc_upper without the tests that the partition owns the upper edge.
QbcUpperNoEdgeTest(g, dim, q, ax) ==
  IF dim.mthbc_upper = 0
  THEN Ret(user_bc_upper(g, dim, q), <<[side |-> "upper", dim |-> dim.name]>>)
  ELSE IF dim.mthbc_upper = 1
  THEN Ret(ExtrapUpper(q, ax, g.mbc, Size(g, ax), 0), <<>>)
  ELSE IF dim.mthbc_upper = 2
  THEN Ret(q, <<>>)
  ELSE IF dim.mthbc_upper = 3
  THEN IF g.ndim = 1
       THEN Ret(WallUpper(q, ax, g.mbc, Size(g, ax), 1, 0), <<>>)
       ELSE IF g.ndim = 2
       THEN IF dim.name = "x"
            THEN Ret(WallUpper(q, ax, g.mbc, Size(g, ax), 1, 0), <<>>)
            ELSE Ret(WallUpper(q, ax, g.mbc, Size(g, ax), 2, 0), <<>>)
       ELSE Raise(q, NotImplementedMsg, <<>>)
  ELSE Raise(q, NotImplementedMsg, <<>>)

qbc_upper(g, dim, q, ax) ==
  IF dim.mthbc_upper = 0
  THEN Ret(user_bc_upper(g, dim, q), <<[side |-> "upper", dim |-> dim.name]>>)
  ELSE IF dim.mthbc_upper = 1
  THEN IF dim.nend = dim.n
       THEN Ret(ExtrapUpper(q, ax, g.mbc, Size(g, ax), 0), <<>>)
       ELSE Ret(q, <<>>)
  ELSE IF dim.mthbc_upper = 2
  THEN Ret(q, <<>>)
  ELSE IF dim.mthbc_upper = 3
  THEN IF dim.nend = dim.n
       THEN IF g.ndim = 1
            THEN Ret(WallUpper(q, ax, g.mbc, Size(g, ax), 1, 0), <<>>)
            ELSE IF g.ndim = 2
            THEN IF dim.name = "x"
                 THEN Ret(WallUpper(q, ax, g.mbc, Size(g, ax), 1, 0), <<>>)
                 ELSE Ret(WallUpper(q, ax, g.mbc, Size(g, ax), 2, 0), <<>>)
            ELSE Raise(q, NotImplementedMsg, <<>>)
       ELSE Ret(q, <<>>)
  ELSE Raise(q, NotImplementedMsg, <<>>)

(***************************************************************************)
(* qbc: every dimension in order, lower side then upper side; an exception *)
(* leaves the array as filled so far.                                      *)
(***************************************************************************)
RollAxis(dim, kind, i) == IF kind = 0 THEN 1 ELSE i

QbcDim(g, i, r) ==
  LET dim == g.dimensions[i]
      lo == qbc_lower(g, dim, r.q, RollAxis(dim, dim.mthbc_lower, i))
  IN IF lo.exc # "none"
     THEN Raise(lo.q, lo.exc, r.calls \o lo.calls)
     ELSE LET up == qbc_upper(g, dim, lo.q, RollAxis(dim, dim.mthbc_upper, i))
          IN [q |-> up.q, exc |-> up.exc,
              calls |-> r.calls \o lo.calls \o up.calls]

RECURSIVE QbcFrom(_, _, _)
QbcFrom(g, i, r) ==
  IF i > g.ndim \/ r.exc # "none" THEN r
  ELSE QbcFrom(g, i + 1, QbcDim(g, i, r))

qbc(g, q) == QbcFrom(g, 1, Ret(q, <<>>))

(***************************************************************************)
(* Grids.  A dimension of a partition: n cells in the whole domain, of    *)
(* which the partition holds nstart..nend-1.                               *)
(***************************************************************************)
\* single partition, first, last, and middle partition along a dimension
Ranges(l) ==
  { [n |-> l, nstart |-> 0, nend |-> l],
    [n |-> 2 * l, nstart |-> 0, nend |-> l],
    [n |-> 2 * l, nstart |-> l, nend |-> 2 * l],
    [n |-> 3 * l, nstart |-> l, nend |-> 2 * l] }

Dims(name, l, ks) ==
  { [name |-> name, mthbc_lower |-> kl, mthbc_upper |-> ku,
     n |-> r.n, nstart |-> r.nstart, nend |-> r.nend] :
       kl \in ks, ku \in ks, r \in Ranges(l) }

PeriodicDim(name, l) ==
  [name |-> name, mthbc_lower |-> 2, mthbc_upper |-> 2,
   n |-> l, nstart |-> 0, nend |-> l]

Grids1DOf(mbc) ==
  { [ndim |-> 1, mbc |-> mbc, dimensions |-> <<dx>>] :
      dx \in UNION { Dims("x", mbc + e, Kinds) : e \in 0..MaxExtra } }

Grids1D == UNION { Grids1DOf(mbc) : mbc \in 1..MaxMbc }

Grids2DOf(mbc) ==
  LET xs(ks) == UNION { Dims("x", mbc + e, ks) : e \in 0..MaxExtra }
      ys(ks) == Dims("y", mbc, ks)
  IN { [ndim |-> 2, mbc |-> mbc, dimensions |-> <<dx, dy>>] :
         dx \in xs({1, 3}), dy \in ys({1, 3}) }
     \cup
     { [ndim |-> 2, mbc |-> mbc, dimensions |-> <<dx, dy>>] :
         dx \in xs(Kinds), dy \in {PeriodicDim("y", mbc)} }
     \cup
     { [ndim |-> 2, mbc |-> mbc, dimensions |-> <<dx, dy>>] :
         dx \in {PeriodicDim("x", mbc)}, dy \in ys(Kinds) }

Grids2D == UNION { Grids2DOf(mbc) : mbc \in 1..MaxMbc }

Grids3DOf(mbc) ==
  { [ndim |-> 3, mbc |-> mbc, dimensions |-> <<dx, dy, dz>>] :
      dx \in Dims("x", mbc, Kinds),
      dy \in {PeriodicDim("y", mbc)},
      dz \in {PeriodicDim("z", mbc)} }
  \cup
  { [ndim |-> 3, mbc |-> mbc, dimensions |-> <<dx, dy, dz>>] :
      dx \in {PeriodicDim("x", mbc)},
      dy \in Dims("y", mbc, Kinds),
      dz \in {PeriodicDim("z", mbc)} }
  \cup
  { [ndim |-> 3, mbc |-> mbc, dimensions |-> <<dx, dy, dz>>] :
      dx \in {PeriodicDim("x", mbc)},
      dy \in {PeriodicDim("y", mbc)},
      dz \in Dims("z", mbc, Kinds) }

Grids3D == UNION { Grids3DOf(mbc) : mbc \in 1..MaxMbc }

Grids == Grids1D \cup Grids2D \cup Grids3D

\* The array before a fill: every cell holds its own positive value.
InitArray(g) == [s \in Indices(g) |-> 1 + Lin(g, s, g.ndim + 1)]

\* A second array with the same interior cells and other ghost contents.
TwinArray(g) ==
  [s \in Indices(g) |->
     IF IsInterior(g, s)
     THEN 1 + Lin(g, s, g.ndim + 1)
     ELSE -(1 + Lin(g, s, g.ndim + 1))]

NoArray == << >>
NoOp == [name |-> "none", d |-> 0]

\* The step controller is not running during a boundary fill.
CflIdle ==
  /\ dt_variable = FALSE
  /\ pc = << >>
  /\ cfl = << >>
  /\ dt = << >>
  /\ dt_used = << >>
  /\ dt0 = << >>
  /\ t = << >>
  /\ t_old = << >>
  /\ q_sol = << >>
  /\ q_cand = << >>
  /\ speed = << >>
  /\ retries = << >>
  /\ nsteps = << >>
  /\ sendbuf = << >>
  /\ left = << >>
  /\ pre = << >>

\* No serial / distributed comparison is under way.
DistIdle ==
  /\ dist_cfg = << >>
  /\ serial_q = << >>
  /\ serial_steps = 0
  /\ local_q = << >>
  /\ dpc = << >>
  /\ dsteps = << >>

\* No boundary fill is under way in the step controller's model.
BCIdle ==
  /\ grid = << >>
  /\ ghosted_q = << >>
  /\ twin_q = << >>
  /\ q_in = << >>
  /\ op = [name |-> "idle", d |-> 0]
  /\ exc = "none"
  /\ calls = << >>

(***************************************************************************)
(* Boundary fill: state and operations.  qbc also runs on twin_q, the      *)
(* array of a second run with the same interior cells, on the 1D and 2D    *)
(* grids, where the extrapolation and wall fills are implemented.          *)
(***************************************************************************)
InitBC ==
  /\ grid \in Grids
  /\ ghosted_q = InitArray(grid)
  /\ twin_q = IF grid.ndim = 3 THEN NoArray ELSE TwinArray(grid)
  /\ q_in = NoArray
  /\ op = NoOp
  /\ exc = "none"
  /\ calls = <<>>
  /\ CflIdle
  /\ DistIdle

\* self.qbc_lower(grid, dim, ...) as qbc calls it for dimension d
QbcLower(d) ==
  /\ op.name = "none"
  /\ d \in 1..grid.ndim
  /\ LET dim == grid.dimensions[d]
         r == qbc_lower(grid, dim, ghosted_q, RollAxis(dim, dim.mthbc_lower, d))
     IN /\ ghosted_q' = r.q
        /\ exc' = r.exc
        /\ calls' = r.calls
  /\ q_in' = ghosted_q
  /\ op' = [name |-> "qbc_lower", d |-> d]
  /\ UNCHANGED <<grid, twin_q, cflvars, distvars>>

\* self.qbc_upper(grid, dim, ...) as qbc calls it for dimension d
QbcUpper(d) ==
  /\ op.name = "none"
  /\ d \in 1..grid.ndim
  /\ LET dim == grid.dimensions[d]
         r == qbc_upper(grid, dim, ghosted_q, RollAxis(dim, dim.mthbc_upper, d))
     IN /\ ghosted_q' = r.q
        /\ exc' = r.exc
        /\ calls' = r.calls
  /\ q_in' = ghosted_q
  /\ op' = [name |-> "qbc_upper", d |-> d]
  /\ UNCHANGED <<grid, twin_q, cflvars, distvars>>

\* self.qbc(grid, state), on the array and on its twin
Qbc ==
  /\ op.name = "none"
  /\ LET r == qbc(grid, ghosted_q)
         r2 == qbc(grid, twin_q)
     IN /\ ghosted_q' = r.q
        /\ twin_q' = IF twin_q = NoArray THEN NoArray ELSE r2.q
        /\ exc' = r.exc
        /\ calls' = r.calls
  /\ q_in' = ghosted_q
  /\ op' = [name |-> "qbc", d |-> 0]
  /\ UNCHANGED <<grid, cflvars, distvars>>

NextBC ==
  \/ \E d \in DOMAIN DimNames : QbcLower(d)
  \/ \E d \in DOMAIN DimNames : QbcUpper(d)
  \/ Qbc

SpecBC == InitBC /\ [][NextBC]_vars

(***************************************************************************)
(* Step control on NPart partitions.  Every partition runs the same        *)
(* controller on its own copy of dt, t and cfl; communicateCFL is the only *)
(* communication between them.                                             *)
(***************************************************************************)
Parts == 1..NPart
None == -1

\* Solver configuration of the controller.
CflMax == 4        \* cfl_max
CflTarget == 4     \* cfl_desired
DtInit == 8        \* first trial dt; the trial dt of every step when fixed
DtMax == 8         \* dt_max
RetryLimit == 2    \* re-attempts allowed for one step
Speeds == 2..3     \* largest wave speed / dx the update engine can report

MaxOf(S) == CHOOSE m \in S : \A x \in S : m >= x
MinOf(S) == CHOOSE m \in S : \A x \in S : m <= x

\* comm.Allreduce(cfl1, max_cfl, MPI.MIN)
AllreduceMin(buf) == MinOf({ buf[r] : r \in Parts })

\* comm.Allreduce(cfl1, max_cfl, MPI.MAX): the result every rank receives
Allreduce(buf) == MaxOf({ buf[r] : r \in Parts })

NoPre == [r \in Parts |-> None]

InitCFL ==
  /\ dt_variable \in BOOLEAN
  /\ pc = [p \in Parts |-> "Proposed"]
  /\ cfl = [p \in Parts |-> 0]
  /\ dt = [p \in Parts |-> DtInit]
  /\ dt_used = [p \in Parts |-> DtInit]
  /\ dt0 = [p \in Parts |-> DtInit]
  /\ t = [p \in Parts |-> 0]
  /\ t_old = [p \in Parts |-> 0]
  /\ q_sol = [p \in Parts |-> 0]
  /\ q_cand = [p \in Parts |-> 0]
  /\ speed \in [Parts -> Speeds]
  /\ retries = [p \in Parts |-> 0]
  /\ nsteps = [p \in Parts |-> 0]
  /\ sendbuf = NoPre
  /\ left = [p \in Parts |-> FALSE]
  /\ pre = [p \in Parts |-> NoPre]
  /\ BCIdle
  /\ DistIdle

\* Proposed: the update engine computes the candidate state with the trial
\* dt and reports the CFL number of this partition's cells in self.cfl.
Update(p) ==
  /\ pc[p] = "Proposed"
  /\ q_cand' = [q_cand EXCEPT ![p] = q_sol[p] + 1]
  /\ cfl' = [cfl EXCEPT ![p] = speed[p] * dt[p]]
  /\ dt_used' = [dt_used EXCEPT ![p] = dt[p]]
  /\ dt0' = [dt0 EXCEPT ![p] = IF retries[p] = 0 THEN dt[p] ELSE dt0[p]]
  /\ t_old' = [t_old EXCEPT ![p] = t[p]]
  /\ pc' = [pc EXCEPT ![p] = "Computed"]
  /\ UNCHANGED <<dt_variable, dt, t, q_sol, speed, retries, nsteps,
                 sendbuf, left, pre, bcvars, distvars>>

\* communicateCFL with dt_variable false: returns at once.
CommunicateCFLFixed(p) ==
  /\ pc[p] = "Computed"
  /\ ~dt_variable
  /\ pc' = [pc EXCEPT ![p] = "Reduced"]
  /\ UNCHANGED <<dt_variable, cfl, dt, dt_used, dt0, t, t_old, q_sol, q_cand, speed,
                 retries, nsteps, sendbuf, left, pre, bcvars, distvars>>

\* communicateCFL with dt_variable true, first half: the rank enters
\* comm.Allreduce with cfl1 = [self.cfl] and blocks.
AllreduceEnter(p) ==
  /\ pc[p] = "Computed"
  /\ dt_variable
  /\ sendbuf[p] = None
  /\ sendbuf' = [sendbuf EXCEPT ![p] = cfl[p]]
  /\ pc' = [pc EXCEPT ![p] = "InAllreduce"]
  /\ UNCHANGED <<dt_variable, cfl, dt, dt_used, dt0, t, t_old, q_sol, q_cand, speed,
                 retries, nsteps, left, pre, bcvars, distvars>>

\* second half: once every rank has entered, Allreduce returns the maximum
\* and the rank stores it in self.cfl.
AllreduceReturn(p) ==
  /\ pc[p] = "InAllreduce"
  /\ \A r \in Parts : sendbuf[r] # None
  /\ cfl' = [cfl EXCEPT ![p] = Allreduce(sendbuf)]
  /\ pre' = [pre EXCEPT ![p] = sendbuf]
  /\ pc' = [pc EXCEPT ![p] = "Reduced"]
  /\ IF \A r \in Parts \ {p} : left[r]
     THEN /\ sendbuf' = NoPre
          /\ left' = [r \in Parts |-> FALSE]
     ELSE /\ left' = [left EXCEPT ![p] = TRUE]
          /\ UNCHANGED sendbuf
  /\ UNCHANGED <<dt_variable, dt, dt_used, dt0, t, t_old, q_sol, q_cand, speed,
                 retries, nsteps, bcvars, distvars>>

NextTrialDt(p) ==
  IF dt_variable
  THEN LET scaled == (dt[p] * CflTarget) \div cfl[p]
       IN IF scaled > DtMax THEN DtMax ELSE scaled
  ELSE DtInit

\* Reject without restoring the state and without reducing dt.
RejectKeeping(p) ==
  /\ pc[p] = "Reduced"
  /\ cfl[p] > CflMax
  /\ q_sol' = [q_sol EXCEPT ![p] = q_cand[p]]
  /\ retries' = [retries EXCEPT ![p] = retries[p] + 1]
  /\ pc' = [pc EXCEPT ![p] = "Rejected"]
  /\ UNCHANGED <<dt_variable, cfl, dt, dt_used, dt0, t, t_old, q_cand, speed,
                 nsteps, sendbuf, left, pre, bcvars, distvars>>

\* Transition to Accepted: commit the candidate, advance the time, compute
\* the next trial dt.
Accept(p) ==
  /\ pc[p] = "Reduced"
  /\ cfl[p] <= CflMax
  /\ q_sol' = [q_sol EXCEPT ![p] = q_cand[p]]
  /\ t' = [t EXCEPT ![p] = t[p] + dt[p]]
  /\ dt' = [dt EXCEPT ![p] = NextTrialDt(p)]
  /\ nsteps' = [nsteps EXCEPT ![p] = nsteps[p] + 1]
  /\ pc' = [pc EXCEPT ![p] = "Accepted"]
  /\ UNCHANGED <<dt_variable, cfl, dt_used, dt0, t_old, q_cand, speed, retries,
                 sendbuf, left, pre, bcvars, distvars>>

\* Transition to Rejected: discard the candidate, halve dt.
Reject(p) ==
  /\ pc[p] = "Reduced"
  /\ cfl[p] > CflMax
  /\ q_cand' = [q_cand EXCEPT ![p] = q_sol[p]]
  /\ dt' = [dt EXCEPT ![p] = dt[p] \div 2]
  /\ retries' = [retries EXCEPT ![p] = retries[p] + 1]
  /\ pc' = [pc EXCEPT ![p] = "Rejected"]
  /\ UNCHANGED <<dt_variable, cfl, dt_used, dt0, t, t_old, q_sol, speed, nsteps,
                 sendbuf, left, pre, bcvars, distvars>>

\* After an accepted step: the next step is proposed on the new state, or
\* the end time is reached.
NextStep(p) ==
  /\ pc[p] = "Accepted"
  /\ retries' = [retries EXCEPT ![p] = 0]
  /\ pre' = [pre EXCEPT ![p] = NoPre]
  /\ IF nsteps[p] >= MaxSteps
     THEN /\ pc' = [pc EXCEPT ![p] = "Done"]
          /\ UNCHANGED speed
     ELSE /\ pc' = [pc EXCEPT ![p] = "Proposed"]
          /\ \E s \in Speeds : speed' = [speed EXCEPT ![p] = s]
  /\ UNCHANGED <<dt_variable, cfl, dt, dt_used, dt0, t, t_old, q_sol, q_cand,
                 nsteps, sendbuf, left, bcvars, distvars>>

\* After a rejected step: re-attempt from Proposed within the retry limit.
Retry(p) ==
  /\ pc[p] = "Rejected"
  /\ retries[p] <= RetryLimit
  /\ pc' = [pc EXCEPT ![p] = "Proposed"]
  /\ pre' = [pre EXCEPT ![p] = NoPre]
  /\ UNCHANGED <<dt_variable, cfl, dt, dt_used, dt0, t, t_old, q_sol, q_cand, speed,
                 retries, nsteps, sendbuf, left, bcvars, distvars>>

\* The retry limit is used up: the run fails with CFLExceededError.
Fail(p) ==
  /\ pc[p] = "Rejected"
  /\ retries[p] > RetryLimit
  /\ pc' = [pc EXCEPT ![p] = "Failed"]
  /\ UNCHANGED <<dt_variable, cfl, dt, dt_used, dt0, t, t_old, q_sol, q_cand, speed,
                 retries, nsteps, sendbuf, left, pre, bcvars, distvars>>

Step(p) ==
  \/ Update(p)
  \/ CommunicateCFLFixed(p)
  \/ AllreduceEnter(p)
  \/ AllreduceReturn(p)
  \/ Accept(p)
  \/ Reject(p)
  \/ NextStep(p)
  \/ Retry(p)
  \/ Fail(p)

NextCFL == \E p \in Parts : Step(p)

SpecCFL == InitCFL /\ [][NextCFL]_vars

\* Every partition is a running process: it takes its next step when it can.
FairSpecCFL == SpecCFL /\ \A p \in Parts : WF_vars(Step(p))

(***************************************************************************)
(* One-dimensional run on the undivided grid and on NPart partitions.     *)
(* Each step: ghost exchange, boundary fill (qbc), update of the interior. *)
(***************************************************************************)
DistKinds == { <<kl, ku>> : kl \in {0, 1, 3}, ku \in {0, 1, 3} } \cup { <<2, 2>> }

DistCfgs ==
  { [mbc |-> mbc, extra |-> e, mthbc_lower |-> k[1], mthbc_upper |-> k[2]] :
      mbc \in 1..MaxMbc, e \in 0..MaxExtra, k \in DistKinds }

LocalCells(c) == c.mbc + c.extra
GlobalCells(c) == NPart * LocalCells(c)

\* the grid of partition p, holding cells (p-1)*L .. p*L-1 of the domain
PartGrid(c, p) ==
  [ndim |-> 1, mbc |-> c.mbc,
   dimensions |-> <<[name |-> "x",
                     mthbc_lower |-> c.mthbc_lower,
                     mthbc_upper |-> c.mthbc_upper,
                     n |-> GlobalCells(c),
                     nstart |-> (p - 1) * LocalCells(c),
                     nend |-> p * LocalCells(c)]>>]

\* the grid of the run on the undivided domain
WholeGrid(c) ==
  [ndim |-> 1, mbc |-> c.mbc,
   dimensions |-> <<[name |-> "x",
                     mthbc_lower |-> c.mthbc_lower,
                     mthbc_upper |-> c.mthbc_upper,
                     n |-> GlobalCells(c),
                     nstart |-> 0,
                     nend |-> GlobalCells(c)]>>]

\* initial condition: cell g of the domain, component m
InitialValue(c, m, g) == 1 + m * GlobalCells(c) + g

\* ghosted array of a grid holding cells nstart..nend-1, ghost cells zero
InitialQ(c, g) ==
  [s \in Indices(g) |->
     IF IsInterior(g, s)
     THEN InitialValue(c, s[1], g.dimensions[1].nstart + s[2] - g.mbc)
     ELSE 0]

Periodic(c) == c.mthbc_lower = 2 /\ c.mthbc_upper = 2

\* exchange_ghosts on the undivided grid: periodic wrap only
ExchangeWhole(c, a) ==
  LET n == GlobalCells(c) IN
  [s \in DOMAIN a |->
     IF Periodic(c) /\ s[2] < c.mbc THEN a[<<s[1], s[2] + n>>]
     ELSE IF Periodic(c) /\ s[2] >= c.mbc + n THEN a[<<s[1], s[2] - n>>]
     ELSE a[s]]

\* exchange_ghosts on partition p: the ghost layers of a side with a
\* neighbour (with periodic wrap) receive the neighbour's interior cells
ExchangePart(c, loc, p) ==
  LET l == LocalCells(c)
      lower == IF p > 1 THEN p - 1 ELSE IF Periodic(c) THEN NPart ELSE 0
      upper == IF p < NPart THEN p + 1 ELSE IF Periodic(c) THEN 1 ELSE 0
  IN [s \in DOMAIN loc[p] |->
        IF s[2] < c.mbc /\ lower # 0 THEN loc[lower][<<s[1], s[2] + l>>]
        ELSE IF s[2] >= c.mbc + l /\ upper # 0
        THEN loc[upper][<<s[1], s[2] - l>>]
        ELSE loc[p][s]]

\* the update of the interior cells: a linear stencil over the cell and
\* its mbc neighbours on each side stands for the per-cell numerics
RECURSIVE StencilSum(_, _, _, _)
StencilSum(a, s, mbc, k) ==
  IF k > mbc THEN 0
  ELSE (k + mbc + 1) * a[<<s[1], s[2] + k>>] + StencilSum(a, s, mbc, k + 1)

UpdateInterior(g, a) ==
  [s \in DOMAIN a |->
     IF IsInterior(g, s) THEN StencilSum(a, s, g.mbc, -g.mbc) ELSE a[s]]

InitDist ==
  /\ dist_cfg \in DistCfgs
  /\ serial_q = InitialQ(dist_cfg, WholeGrid(dist_cfg))
  /\ serial_steps = 0
  /\ local_q = [p \in Parts |-> InitialQ(dist_cfg, PartGrid(dist_cfg, p))]
  /\ dpc = [p \in Parts |-> "ready"]
  /\ dsteps = [p \in Parts |-> 0]
  /\ BCIdle
  /\ CflIdle

\* one step of the run on the undivided grid
SerialStep ==
  /\ serial_steps < MaxDistSteps
  /\ LET g == WholeGrid(dist_cfg)
         filled == qbc(g, ExchangeWhole(dist_cfg, serial_q))
     IN /\ filled.exc = "none"
        /\ serial_q' = UpdateInterior(g, filled.q)
  /\ serial_steps' = serial_steps + 1
  /\ UNCHANGED <<dist_cfg, local_q, dpc, dsteps, bcvars, cflvars>>

\* the blocking ghost exchange at the start of a step, on all partitions
ExchangeGhosts ==
  /\ \A p \in Parts : dpc[p] = "ready" /\ dsteps[p] < MaxDistSteps
  /\ local_q' = [p \in Parts |-> ExchangePart(dist_cfg, local_q, p)]
  /\ dpc' = [p \in Parts |-> "bc"]
  /\ UNCHANGED <<dist_cfg, serial_q, serial_steps, dsteps, bcvars, cflvars>>

\* partition p fills its ghost cells: self.qbc(grid, t, q)
PartQbc(p) ==
  /\ dpc[p] = "bc"
  /\ LET filled == qbc(PartGrid(dist_cfg, p), local_q[p])
     IN /\ filled.exc = "none"
        /\ local_q' = [local_q EXCEPT ![p] = filled.q]
  /\ dpc' = [dpc EXCEPT ![p] = "update"]
  /\ UNCHANGED <<dist_cfg, serial_q, serial_steps, dsteps, bcvars, cflvars>>

\* partition p updates its interior cells
PartUpdate(p) ==
  /\ dpc[p] = "update"
  /\ local_q' = [local_q EXCEPT
                   ![p] = UpdateInterior(PartGrid(dist_cfg, p), local_q[p])]
  /\ dpc' = [dpc EXCEPT ![p] = "ready"]
  /\ dsteps' = [dsteps EXCEPT ![p] = dsteps[p] + 1]
  /\ UNCHANGED <<dist_cfg, serial_q, serial_steps, bcvars, cflvars>>

NextDist ==
  \/ SerialStep
  \/ ExchangeGhosts
  \/ \E p \in Parts : PartQbc(p)
  \/ \E p \in Parts : PartUpdate(p)

SpecDist == InitDist /\ [][NextDist]_vars

(***************************************************************************)
(* Properties of the boundary fill.  They speak of the state after one    *)
(* call: op names the call, q_in is the array it was given, ghosted_q the  *)
(* array it left, exc the exception it raised, calls the callbacks it ran. *)
(***************************************************************************)
OpDim == grid.dimensions[op.d]
OpSize == Size(grid, op.d)
At(s, d, j) == [s EXCEPT ![d + 1] = j]
Along(s) == s[op.d + 1]
InLowerGhost(s) == Along(s) < grid.mbc
InUpperGhost(s) == Along(s) >= OpSize - grid.mbc

LowerFill(k) == op.name = "qbc_lower" /\ OpDim.mthbc_lower = k
UpperFill(k) == op.name = "qbc_upper" /\ OpDim.mthbc_upper = k
OwnsLower == OpDim.nstart = 0
OwnsUpper == OpDim.nend = OpDim.n

\* the component holding the velocity normal to the filled dimension
NormalSign(s) == IF s[1] = op.d THEN -1 ELSE 1

\* C1: after a reflecting-wall fill of a physical edge of a 1D or 2D grid,
\* lower ghost cell i equals interior cell 2*mbc-1-i and the i-th ghost cell
\* from the end equals the i-th interior cell inside the upper edge, with
\* the component (dimension index + 1) negated and the others copied.
C1_WallMirror ==
  /\ (LowerFill(3) /\ OwnsLower /\ grid.ndim \in {1, 2}) =>
       /\ exc = "none"
       /\ \A s \in DOMAIN ghosted_q :
            InLowerGhost(s) =>
              ghosted_q[s] =
                NormalSign(s) * ghosted_q[At(s, op.d, 2 * grid.mbc - 1 - Along(s))]
  /\ (UpperFill(3) /\ OwnsUpper /\ grid.ndim \in {1, 2}) =>
       /\ exc = "none"
       /\ \A s \in DOMAIN ghosted_q :
            InUpperGhost(s) =>
              ghosted_q[s] =
                NormalSign(s) *
                  ghosted_q[At(s, op.d, 2 * (OpSize - grid.mbc) - 1 - Along(s))]

\* C4: after a zero-order-extrapolation fill of a physical edge every ghost
\* cell of that side equals the nearest interior cell (index mbc, resp.
\* -mbc-1) in all components, and filling again changes nothing.
C4_ExtrapNearest ==
  /\ (LowerFill(1) /\ OwnsLower) =>
       /\ exc = "none"
       /\ \A s \in DOMAIN ghosted_q :
            InLowerGhost(s) =>
              /\ ghosted_q[s] = ghosted_q[At(s, op.d, grid.mbc)]
              /\ ghosted_q[s] = q_in[At(s, op.d, grid.mbc)]
       /\ qbc_lower(grid, OpDim, ghosted_q, op.d).q = ghosted_q
  /\ (UpperFill(1) /\ OwnsUpper) =>
       /\ exc = "none"
       /\ \A s \in DOMAIN ghosted_q :
            InUpperGhost(s) =>
              /\ ghosted_q[s] = ghosted_q[At(s, op.d, OpSize - grid.mbc - 1)]
              /\ ghosted_q[s] = q_in[At(s, op.d, OpSize - grid.mbc - 1)]
       /\ qbc_upper(grid, OpDim, ghosted_q, op.d).q = ghosted_q

C4_Witness ==
  /\ LowerFill(1) /\ OwnsLower
  /\ grid.ndim = 3 /\ grid.mbc >= 2
  /\ exc = "none"
  /\ ghosted_q # q_in

\* C5: a periodic fill, and an extrapolation or wall fill on a side that is
\* not a physical edge of the partition, leaves every cell of the array as
\* it was and returns normally.
C5_FillSkipped ==
  /\ ( \/ LowerFill(2)
       \/ (LowerFill(1) \/ LowerFill(3)) /\ ~OwnsLower ) =>
       (ghosted_q = q_in /\ exc = "none" /\ calls = <<>>)
  /\ ( \/ UpperFill(2)
       \/ (UpperFill(1) \/ UpperFill(3)) /\ ~OwnsUpper ) =>
       (ghosted_q = q_in /\ exc = "none" /\ calls = <<>>)

C5_Witness ==
  /\ (UpperFill(1) \/ UpperFill(3)) /\ ~OwnsUpper
  /\ grid.ndim = 2
  /\ ghosted_q = q_in

\* C6: on a side that is not a physical edge no boundary condition of any
\* kind is applied: no user callback is invoked and no cell is written.
C6_NoPhysicalBC ==
  /\ (op.name = "qbc_lower" /\ ~OwnsLower) => (calls = <<>> /\ ghosted_q = q_in)
  /\ (op.name = "qbc_upper" /\ ~OwnsUpper) => (calls = <<>> /\ ghosted_q = q_in)

\* C10: a fill of a side whose kind is outside {0,1,2,3}, or is 3 on a 3D
\* grid, fails with the unsupported-configuration error (NotImplementedError
\* in this code) on every partition; qbc fails so when any side is such.
Unsupported(k) == k \notin {0, 1, 2, 3} \/ (k = 3 /\ grid.ndim = 3)

C10_UnsupportedFails ==
  /\ (op.name = "qbc_lower" /\ Unsupported(OpDim.mthbc_lower)) =>
        exc = "NotImplementedError"
  /\ (op.name = "qbc_upper" /\ Unsupported(OpDim.mthbc_upper)) =>
        exc = "NotImplementedError"
  /\ ( /\ op.name = "qbc"
       /\ \E d \in 1..grid.ndim :
            \/ Unsupported(grid.dimensions[d].mthbc_lower)
            \/ Unsupported(grid.dimensions[d].mthbc_upper) ) =>
        exc = "NotImplementedError"

\* C11: on a grid of 1 or 2 dimensions with a built-in kind (1, 2, 3) on
\* the sides concerned, qbc and its per-side fills return normally and leave
\* every interior cell (index in mbc..mbc+n-1 along each dimension) as it
\* was; only cells in a ghost layer of some dimension are written.
AllBuiltin ==
  \A d \in 1..grid.ndim :
    /\ grid.dimensions[d].mthbc_lower \in BuiltinKinds
    /\ grid.dimensions[d].mthbc_upper \in BuiltinKinds

BuiltinFill ==
  \/ op.name = "qbc" /\ AllBuiltin
  \/ op.name = "qbc_lower" /\ OpDim.mthbc_lower \in BuiltinKinds
  \/ op.name = "qbc_upper" /\ OpDim.mthbc_upper \in BuiltinKinds

C11_InteriorUntouched ==
  (grid.ndim \in {1, 2} /\ BuiltinFill) =>
    /\ exc = "none"
    /\ DOMAIN ghosted_q = DOMAIN q_in
    /\ \A s \in DOMAIN ghosted_q :
         IsInterior(grid, s) => ghosted_q[s] = q_in[s]

C11_Witness ==
  /\ op.name = "qbc" /\ AllBuiltin
  /\ grid.ndim = 2 /\ grid.mbc = MaxMbc
  /\ grid.dimensions[1].mthbc_lower = 3 /\ grid.dimensions[1].nstart = 0
  /\ grid.dimensions[2].mthbc_upper = 1
  /\ grid.dimensions[2].nend = grid.dimensions[2].n
  /\ \E s \in DOMAIN ghosted_q : ghosted_q[s] # q_in[s]

\* C12: on a single partition owning every physical edge of a 1D or 2D
\* grid, with kinds 1 or 3 on all sides, the ghost cells after qbc (corner
\* cells included) depend on the interior cells only: the array and its
\* twin, which differ in their ghost cells alone, have equal ghost layers
\* after qbc, and a second qbc changes nothing.
OwnsEveryEdge ==
  \A d \in 1..grid.ndim :
    /\ grid.dimensions[d].nstart = 0
    /\ grid.dimensions[d].nend = grid.dimensions[d].n

ExtrapOrWallEverywhere ==
  \A d \in 1..grid.ndim :
    /\ grid.dimensions[d].mthbc_lower \in {1, 3}
    /\ grid.dimensions[d].mthbc_upper \in {1, 3}

PhysicalFillEverywhere ==
  /\ op.name = "qbc"
  /\ grid.ndim \in {1, 2}
  /\ OwnsEveryEdge
  /\ ExtrapOrWallEverywhere

C12_GhostsFromInteriorOnly ==
  PhysicalFillEverywhere =>
    /\ exc = "none"
    /\ \A s \in DOMAIN ghosted_q :
         ~IsInterior(grid, s) => ghosted_q[s] = twin_q[s]
    /\ qbc(grid, ghosted_q).q = ghosted_q

\* the same, where every source cell of the wall fill is an interior cell:
\* at most two ghost cells and at least two cells along each dimension
C12_HoldsWhenSourcesInterior ==
  ( /\ grid.mbc <= 2
    /\ \A d \in 1..grid.ndim : Local(grid.dimensions[d]) >= 2 )
     => C12_GhostsFromInteriorOnly

(***************************************************************************)
(* Properties of the step controller and the CFL reduction.                *)
(***************************************************************************)
\* The attempt (step number, re-attempt number) a partition is working on
\* or has just decided.
Attempt(p) ==
  IF pc[p] = "Accepted" THEN <<nsteps[p] - 1, retries[p]>>
  ELSE IF pc[p] \in {"Rejected", "Failed"} THEN <<nsteps[p], retries[p] - 1>>
  ELSE <<nsteps[p], retries[p]>>

Decided(p) == pc[p] \in {"Accepted", "Rejected"}

Earlier(a, b) == a[1] < b[1] \/ (a[1] = b[1] /\ a[2] < b[2])

\* r has not yet handed its CFL of attempt a to the reduction
NotContributed(r, a) ==
  \/ Earlier(Attempt(r), a)
  \/ Attempt(r) = a /\ pc[r] \in {"Proposed", "Computed"}

\* C2: with a fixed or an adaptive time step, the partitions base the
\* decision of an attempt on the same CFL value, decide alike with the same
\* next dt and time, and none advances its time for a step whose CFL some
\* partition has not yet handed to the reduction.
C2_SameDecisionEverywhere ==
  \A p \in Parts : \A r \in Parts :
    /\ (pc[p] = "Reduced" /\ pc[r] = "Reduced" /\ Attempt(p) = Attempt(r))
          => cfl[p] = cfl[r]
    /\ (Decided(p) /\ Decided(r) /\ Attempt(p) = Attempt(r))
          => (pc[p] = pc[r] /\ dt[p] = dt[r] /\ t[p] = t[r])
    /\ pc[p] = "Accepted" => ~NotContributed(r, Attempt(p))

\* C3: with adaptive stepping, after communicateCFL has returned on a
\* partition its cfl is the largest of the values the partitions held when
\* they called it: it is one of them, none is larger, it is not below the
\* partition's own, and partitions returning from the same call agree.
C3_ReductionIsMax ==
  \A p \in Parts :
    (dt_variable /\ pc[p] = "Reduced") =>
      /\ pre[p][p] = speed[p] * dt_used[p]
      /\ \E r \in Parts : cfl[p] = pre[p][r]
      /\ \A r \in Parts : cfl[p] >= pre[p][r]
      /\ \A r \in Parts :
           (pc[r] = "Reduced" /\ Attempt(r) = Attempt(p)) => cfl[r] = cfl[p]

C3_Witness ==
  /\ dt_variable
  /\ pc[1] = "Reduced"
  /\ pre[1][1] < cfl[1]
  /\ pc[2] = "Reduced"

\* r has computed the CFL number of its cells for the attempt p decided
ComputedSameAttempt(r, p) ==
  /\ Attempt(r) = Attempt(p)
  /\ pc[r] # "Proposed"

\* C7: every step the controller accepted (candidate committed, time
\* advanced by dt), with a fixed or an adaptive time step, had a CFL number
\* of at most cfl_max: the value the partition decided on, and the CFL
\* number of every partition's cells for that attempt.
C7_AcceptedWithinCflMax ==
  \A p \in Parts :
    pc[p] = "Accepted" =>
      /\ q_sol[p] = q_cand[p]
      /\ t[p] = t_old[p] + dt_used[p]
      /\ cfl[p] <= CflMax
      /\ \A r \in Parts :
           ComputedSameAttempt(r, p) => speed[r] * dt_used[r] <= CflMax

\* the same with an adaptive time step, where communicateCFL reduces: the
\* accepted value is the largest of the values the partitions handed in
C7_HoldsWhenAdaptive ==
  dt_variable =>
    /\ C7_AcceptedWithinCflMax
    /\ \A p \in Parts :
         pc[p] = "Accepted" =>
           /\ \A r \in Parts : pre[p][r] <= cfl[p]
           /\ \A r \in Parts :
                ComputedSameAttempt(r, p) => pre[p][r] = speed[r] * dt_used[r]

\* C8: a step whose CFL exceeds cfl_max is rejected with the state and the
\* time as before the attempt and a smaller dt, and is re-attempted from
\* Proposed; past the retry limit the run fails, otherwise the step is
\* eventually accepted with CFL <= cfl_max and a dt smaller than first tried.
RejectedRight(p) ==
  /\ (pc[p] = "Reduced" /\ cfl[p] > CflMax /\ pc'[p] # pc[p]) =>
        /\ pc'[p] = "Rejected"
        /\ q_sol'[p] = q_sol[p] /\ q_cand'[p] = q_sol[p]
        /\ t'[p] = t[p] /\ t[p] = t_old[p]
        /\ dt'[p] < dt[p]
  /\ (pc[p] = "Rejected" /\ pc'[p] # pc[p]) =>
        IF retries[p] > RetryLimit
        THEN pc'[p] = "Failed"
        ELSE pc'[p] = "Proposed" /\ dt'[p] < dt_used[p]

C8_RejectThenRetry ==
  /\ [][\A p \in Parts : RejectedRight(p)]_vars
  /\ \A p \in Parts :
       (pc[p] = "Rejected") ~>
          \/ pc[p] = "Failed" /\ retries[p] > RetryLimit
          \/ /\ pc[p] = "Accepted"
             /\ cfl[p] <= CflMax
             /\ dt_used[p] < dt0[p]

C8_Witness ==
  \E p \in Parts :
    /\ pc[p] = "Accepted"
    /\ retries[p] = RetryLimit
    /\ dt_used[p] < dt0[p]
    /\ cfl[p] <= CflMax

(***************************************************************************)
(* Serial and distributed runs.                                            *)
(***************************************************************************)
\* the interior cell of the partitions that holds cell g of the domain
Assembled(m, g) ==
  LET l == LocalCells(dist_cfg)
      p == (g \div l) + 1
  IN local_q[p][<<m, dist_cfg.mbc + (g % l)>>]

StepsCompleted(k) ==
  /\ serial_steps = k
  /\ \A p \in Parts : dpc[p] = "ready" /\ dsteps[p] = k

\* C9: after every step the interior state assembled over the partitions
\* equals the interior state of the run on the undivided grid.
C9_DistributedEqualsSerial ==
  \A k \in 0..MaxDistSteps :
    StepsCompleted(k) =>
      \A m \in AllComps : \A g \in 0..(GlobalCells(dist_cfg) - 1) :
        Assembled(m, g) = serial_q[<<m, dist_cfg.mbc + g>>]

\* the same, when no side has a user-defined boundary condition
C9_EqualWithoutUserBC ==
  (dist_cfg.mthbc_lower # 0 /\ dist_cfg.mthbc_upper # 0)
     => C9_DistributedEqualsSerial

====
